---- MODULE Spec2Model ----
(***************************************************************************)
(* The vSphere machine provider: the provider-identifier codec             *)
(* (encodeProviderID / decodeProviderID) and the five lifecycle operations *)
(* of PluginSPIImpl (CreateMachine, DeleteMachine, ShutDownMachine,        *)
(* GetMachineStatus, ListMachines) running against a platform of virtual   *)
(* machines.                                                               *)
(*                                                                         *)
(* Go strings that the codec takes apart are sequences of one-character    *)
(* strings, so that prefix tests, concatenation and strings.Split are      *)
(* computed, not assumed.                                                  *)
(***************************************************************************)
EXTENDS Naturals, Sequences, FiniteSets

\* ------------------------------------------------------------------ bounds

\* Longest region / machine id / identifier remainder drawn for the codec.
MaxLen == 3

\* ----------------------------------------------------------------- strings

\* const providerPrefix = "vsphere://"
providerPrefix == <<"v", "s", "p", "h", "e", "r", "e", ":", "/", "/">>

EmptyStr == <<>>

\* strings.HasPrefix(s, prefix)
HasPrefix(s, prefix) ==
    /\ Len(s) >= Len(prefix)
    /\ SubSeq(s, 1, Len(prefix)) = prefix

\* strings.Split(s, sep) for a one-character separator: the substrings between
\* the separators; Split("", sep) is the one-element list [""].
RECURSIVE Split(_, _)
Split(s, sep) ==
    IF Len(s) = 0
    THEN << EmptyStr >>
    ELSE LET rest == Split(Tail(s), sep)
         IN  IF Head(s) = sep
             THEN << EmptyStr >> \o rest
             ELSE << <<Head(s)>> \o rest[1] >> \o Tail(rest)

\* ------------------------------------------------------------------- codec

\* encodeProviderID with the empty-id guard dropped (a plausible slip).
encodeProviderID_NoEmptyGuard(region, machineID) ==
    providerPrefix \o region \o <<"/">> \o machineID

\* encodeProviderID with the guard testing the region instead of the machine
\* id (a plausible slip).
encodeProviderID_GuardsRegion(region, machineID) ==
    IF region = EmptyStr
    THEN EmptyStr
    ELSE providerPrefix \o region \o <<"/">> \o machineID

\* func (spi *PluginSPIImpl) encodeProviderID(region, machineID string) string
encodeProviderID(region, machineID) ==
    IF machineID = EmptyStr
    THEN EmptyStr
    ELSE providerPrefix \o region \o <<"/">> \o machineID

NoID == [region |-> EmptyStr, machineID |-> EmptyStr]

\* func (spi *PluginSPIImpl) decodeProviderID(providerID string) (region, machineID string)
decodeProviderID(providerID) ==
    IF ~HasPrefix(providerID, providerPrefix)
    THEN NoID
    ELSE LET parts == Split(SubSeq(providerID, Len(providerPrefix) + 1,
                                   Len(providerID)), "/")
         IN  IF Len(parts) # 2
             THEN NoID
             ELSE [region |-> parts[1], machineID |-> parts[2]]

\* The found machine's identifier minted with the region decoded from the
\* identifier passed in, not with the spec's (a plausible slip).
foundProviderID_InputRegion(specRegion, providerID, foundMachineID) ==
    encodeProviderID(decodeProviderID(providerID).region, foundMachineID)

\* The identifier passed in handed back when it already names the found
\* machine, instead of a newly encoded one (a plausible shortcut).
foundProviderID_KeepsInput(specRegion, providerID, foundMachineID) ==
    IF /\ foundMachineID # EmptyStr
       /\ decodeProviderID(providerID).machineID = foundMachineID
    THEN providerID
    ELSE encodeProviderID(specRegion, foundMachineID)

\* _, machineID := spi.decodeProviderID(providerID) ...
\* foundProviderID := spi.encodeProviderID(providerSpec.Region, foundMachineID):
\* the region of the identifier passed in is dropped, the spec's is used.
foundProviderID(specRegion, providerID, foundMachineID) ==
    encodeProviderID(specRegion, foundMachineID)

\* ------------------------------------------------------- codec input domain

Alphabet == {"a", "/"}

RECURSIVE StrsUpTo(_)
StrsUpTo(n) ==
    IF n = 0
    THEN {EmptyStr}
    ELSE LET shorter == StrsUpTo(n - 1)
         IN  shorter \cup {Append(s, c) : s \in shorter, c \in Alphabet}

Strs == StrsUpTo(MaxLen)

\* Identifiers handed to decode: arbitrary short strings, truncated prefixes,
\* and the prefix followed by an arbitrary short remainder.
DecodeInputs ==
    Strs
    \cup {SubSeq(providerPrefix, 1, k) : k \in 1..Len(providerPrefix)}
    \cup {providerPrefix \o s : s \in Strs}

\* ---------------------------------------------------------------- platform

\* Most virtual machines the platform holds over a run (its pool of native ids).
MaxVMs == 2

IdChars == <<"a", "b", "c", "d">>

\* The native id (UUID) the platform gives its i-th virtual machine.
UuidOf(i) == << IdChars[i] >>

UUIDs == {UuidOf(i) : i \in 1..MaxVMs}

Names == {"n1", "n2"}

Regions == {<<"e">>, <<"w">>}

\* Tag keys are sequences of tokens; the two fixed prefixes are one token each.
clusterPrefix == << "kubernetes.io/cluster/" >>
rolePrefix == << "kubernetes.io/role/" >>

Cx == clusterPrefix \o <<"x">>
Cy == clusterPrefix \o <<"y">>
Rn == rolePrefix \o <<"node">>

\* The key sets of VsphereProviderSpec.Tags passed to CreateMachine (they
\* become the new machine's custom fields) and to ListMachines.
CreateTagSets == { {Cx, Rn}, {Cy, Rn}, {Cx} }
ListTagSets == CreateTagSets \cup { {Rn} }

\* Identifiers the callers pass: none, garbage, and well-formed ones (of one
\* region, which is or is not the region of the spec passed with it).
PidInputs ==
    {EmptyStr, <<"a">>} \cup {encodeProviderID(<<"e">>, u) : u \in UUIDs}

Ops == {"Create", "Delete", "ShutDown", "GetStatus", "List"}

AllProcs == {"p1", "p2"}

\* The invocations that run under Spec: one caller, one operation at a time.
Procs == {"p1"}

NoVM == [uuid |-> EmptyStr, name |-> "", fields |-> {}, power |-> "off"]

VARIABLES
    codec,      \* the codec's inputs and outputs (CodecSpec)
    vms,        \* the virtual machines in the placement scope
    used,       \* how many native ids the platform has given out
    sessions,   \* the invocations holding an open platform session
    call,       \* per invocation: operation, arguments, position, results
    validation  \* the validated spec and secrets, and the errors (ValidationSpec)

vars == << codec, vms, used, sessions, call, validation >>

\* ---------------------------------------------------------------- sessions

\* createVsphereClient: on success the invocation holds a session.
createVsphereClient(open, p) == open \cup {p}

\* Logout left out when the operation returns an error (a plausible slip:
\* an explicit Logout on the success path instead of the defer).
Logout_SkippedOnError(open, p) ==
    IF call[p].err = "nil" THEN open \ {p} ELSE open

\* Logout on a client shared by all invocations: it ends every session (what
\* a package-level client would do).
Logout_AllSessions(open, p) == {}

\* defer client.Logout(ctx): runs on every return once the client exists.
Logout(open, p) == open \ {p}

\* ------------------------------------------------- platform collaborators

\* vm.UUID(ctx): the machine's native id, or "" when the property read fails.
UUID(vm, readOk) == IF readOk THEN vm.uuid ELSE EmptyStr

\* findVM: the machine with the native id when the id is given and a machine
\* has it; otherwise the machine with the name. Several machines of that
\* name are an error; none is the not-found signal.
findVM(scope, machineName, machineID) ==
    LET byID   == {v \in scope : v.uuid = machineID}
        byName == {v \in scope : v.name = machineName}
    IN  IF machineID # EmptyStr /\ byID # {}
        THEN [err |-> "nil", vm |-> CHOOSE v \in byID : TRUE, path |-> "id"]
        ELSE IF byName = {}
        THEN [err |-> "NotFound", vm |-> NoVM, path |-> "name"]
        ELSE IF Cardinality(byName) > 1
        THEN [err |-> "Ambiguous", vm |-> NoVM, path |-> "name"]
        ELSE [err |-> "nil", vm |-> CHOOSE v \in byName : TRUE, path |-> "name"]

\* deleteVM: resolve; an absent machine is success with no id; a found one is
\* destroyed and its native id returned.
deleteVM(scope, machineName, machineID, destroyOk) ==
    LET f == findVM(scope, machineName, machineID)
    IN  IF f.err = "NotFound"
        THEN [err |-> "nil", id |-> EmptyStr, vms |-> scope, path |-> f.path]
        ELSE IF f.err # "nil"
        THEN [err |-> f.err, id |-> EmptyStr, vms |-> scope, path |-> f.path]
        ELSE IF ~destroyOk
        THEN [err |-> "DestroyError", id |-> EmptyStr, vms |-> scope, path |-> f.path]
        ELSE [err |-> "nil", id |-> f.vm.uuid, vms |-> scope \ {f.vm}, path |-> f.path]

\* shutDownVM: resolve; an absent machine is success with no id; a found one is
\* powered off (already off is success) and its native id returned.
shutDownVM(scope, machineName, machineID, powerOk) ==
    LET f == findVM(scope, machineName, machineID)
    IN  IF f.err = "NotFound"
        THEN [err |-> "nil", id |-> EmptyStr, vms |-> scope, path |-> f.path]
        ELSE IF f.err # "nil"
        THEN [err |-> f.err, id |-> EmptyStr, vms |-> scope, path |-> f.path]
        ELSE IF ~powerOk
        THEN [err |-> "PowerOpError", id |-> EmptyStr, vms |-> scope, path |-> f.path]
        ELSE [err |-> "nil", id |-> f.vm.uuid, path |-> f.path,
              vms |-> (scope \ {f.vm}) \cup {[f.vm EXCEPT !.power = "off"]}]

\* newClone(...).Run: clones the template into a new machine of the given name
\* carrying the spec's tags as custom fields, or fails and adds nothing.
runClone(scope, given, machineName, tags, cloneOk) ==
    IF cloneOk /\ given < MaxVMs
    THEN LET vm == [uuid |-> UuidOf(given + 1), name |-> machineName,
                    fields |-> tags, power |-> "on"]
         IN  [err |-> "nil", vm |-> vm, vms |-> scope \cup {vm}, given |-> given + 1]
    ELSE [err |-> "CloneError", vm |-> NoVM, vms |-> scope, given |-> given]

\* ------------------------------------------------------------ ListMachines

\* The value a `for key := range tags` loop leaves in a variable it assigns on
\* every key with the prefix: "" if there is none, else that of the key the
\* map iteration happened to visit last.
LastKeyWithPrefix(tags, prefix) ==
    IF \E k \in tags : HasPrefix(k, prefix)
    THEN {k \in tags : HasPrefix(k, prefix)}
    ELSE {EmptyStr}

\* The early return taken only when both keys are missing (|| written as &&).
TagsMissing_Both(clusterName, nodeRole) ==
    clusterName = EmptyStr /\ nodeRole = EmptyStr

\* if clusterName == "" || nodeRole == "" { return machineList, nil }
TagsMissing(clusterName, nodeRole) ==
    clusterName = EmptyStr \/ nodeRole = EmptyStr

\* machineList[providerID] = name
MapPut(machineList, providerID, name) ==
    {e \in machineList : e.id # providerID} \cup {[id |-> providerID, name |-> name]}

\* The visitor with either matching field enough (&& written as ||).
visitor_EitherTag(machineList, vm, uuid, clusterName, nodeRole, region) ==
    IF clusterName \in vm.fields \/ nodeRole \in vm.fields
    THEN MapPut(machineList, encodeProviderID(region, uuid), vm.name)
    ELSE machineList

\* The visitor closure of ListMachines: a machine whose custom fields include
\* one named clusterName and one named nodeRole is put into the map under the
\* identifier of the uuid read for it.
visitor(machineList, vm, uuid, clusterName, nodeRole, region) ==
    LET matchedCluster == clusterName \in vm.fields
        matchedRole    == nodeRole \in vm.fields
    IN  IF matchedCluster /\ matchedRole
        THEN MapPut(machineList, encodeProviderID(region, uuid), vm.name)
        ELSE machineList

\* The orders in which a scan may visit the machines of the scope.
VisitOrders(scope) ==
    {o \in [1..Cardinality(scope) -> scope] :
        \A i, j \in 1..Cardinality(scope) : o[i] = o[j] => i = j}

\* visitVirtualMachines: calls the visitor on every machine of the scope, in
\* the order given; readOk says for which machines the uuid read succeeds.
RECURSIVE visitVirtualMachines(_, _, _, _, _, _, _)
visitVirtualMachines(machineList, order, k, readOk, clusterName, nodeRole, region) ==
    IF k > Len(order)
    THEN machineList
    ELSE visitVirtualMachines(
            visitor(machineList, order[k], UUID(order[k], order[k] \in readOk),
                    clusterName, nodeRole, region),
            order, k + 1, readOk, clusterName, nodeRole, region)

\* ------------------------------------------------------------- invocations

NoCall ==
    [pc |-> "idle", op |-> "none", name |-> "", providerID |-> EmptyStr,
     region |-> EmptyStr, tags |-> {}, result |-> EmptyStr, err |-> "nil",
     list |-> {}, listNil |-> TRUE, opened |-> 0, closed |-> 0,
     scanned |-> FALSE, path |-> "none", afterCreate |-> FALSE,
     clusterName |-> EmptyStr, nodeRole |-> EmptyStr, seen |-> {}]

\* The error return with the error replaced by one of the operation's own
\* (a plausible slip: fmt.Errorf around the collaborator's error).
ErrorReturn_Wrapped(c, err) ==
    [c EXCEPT !.pc = "exit", !.err = "OperationFailed", !.result = EmptyStr,
              !.list = {}, !.listNil = TRUE]

\* return "", err (return nil, err in ListMachines): the collaborator's error
\* as it was reported, with the zero value of the result.
ErrorReturn(c, err) ==
    [c EXCEPT !.pc = "exit", !.err = err, !.result = EmptyStr,
              !.list = {}, !.listNil = TRUE]

\* The codec's record while no codec step is taken.
CodecIdle ==
    [step |-> "idle", region |-> EmptyStr, machineID |-> EmptyStr,
     providerID |-> EmptyStr, encoded |-> EmptyStr, decoded |-> NoID]

\* An empty placement scope, no session, no operation called yet.
MainIdle ==
    /\ vms = {}
    /\ used = 0
    /\ sessions = {}
    /\ call = [p \in AllProcs |-> NoCall]

\* The zero values of VsphereProviderSpec (the fields validation reads) and
\* of Secrets.
NoSpec ==
    [Datastore |-> EmptyStr, DatastoreCluster |-> EmptyStr, TemplateVM |-> EmptyStr,
     ComputeCluster |-> EmptyStr, ResourcePool |-> EmptyStr, HostSystem |-> EmptyStr,
     Network |-> EmptyStr, Tags |-> {}]

NoSecrets ==
    [VsphereHost |-> EmptyStr, VsphereUsername |-> EmptyStr,
     VspherePassword |-> EmptyStr, UserData |-> EmptyStr]

\* The validation's record while nothing is validated.
ValidationIdle ==
    [step |-> "idle", spec |-> NoSpec, secrets |-> NoSecrets,
     allErrs |-> <<>>, tagErrs |-> <<>>,
     clusterName |-> EmptyStr, nodeRole |-> EmptyStr, early |-> FALSE]

Init ==
    /\ codec = CodecIdle
    /\ validation = ValidationIdle
    /\ MainIdle

\* The arguments an operation is called with; those an operation does not
\* take or does not read (the tags, but for CreateMachine and ListMachines)
\* are left at their zero values. The identifier passed is one of PidInputs
\* or the one the caller's previous call returned.
Args(op, prev) ==
    [name       : IF op = "List" THEN {""} ELSE Names,
     providerID : IF op \in {"Create", "List"} THEN {EmptyStr}
                  ELSE PidInputs \cup {prev.result},
     region     : Regions,
     tags       : IF op = "Create" THEN CreateTagSets
                  ELSE IF op = "List" THEN ListTagSets ELSE {{}}]

\* GetMachineStatus is called right after a successful CreateMachine of the
\* same caller, with the identifier that call returned, its name and its
\* spec (of which GetMachineStatus reads the region only).
FollowsCreate(prev, op, a) ==
    /\ op = "GetStatus"
    /\ prev.pc = "done" /\ prev.op = "Create" /\ prev.err = "nil"
    /\ a.providerID = prev.result
    /\ a.name = prev.name /\ a.region = prev.region

\* Entry of every operation: createVsphereClient, and the early return on
\* its error.
Begin(p) ==
    /\ call[p].pc \in {"idle", "done"}
    /\ \E op \in Ops :
        \/ \E a \in Args(op, call[p]) :
            /\ sessions' = createVsphereClient(sessions, p)
            /\ call' = [call EXCEPT ![p] =
                   [NoCall EXCEPT !.pc = "body", !.opened = 1, !.op = op,
                                  !.name = a.name, !.providerID = a.providerID,
                                  !.region = a.region, !.tags = a.tags,
                                  !.afterCreate = FollowsCreate(call[p], op, a)]]
        \/ /\ sessions' = sessions
           /\ call' = [call EXCEPT ![p] =
                  [ErrorReturn([NoCall EXCEPT !.op = op], "ConnectError")
                       EXCEPT !.pc = "done"]]
    /\ UNCHANGED << codec, validation, vms, used >>

\* CreateMachine after the client exists.
CreateMachine(p) ==
    /\ call[p].pc = "body" /\ call[p].op = "Create"
    /\ \E cloneOk \in BOOLEAN, readOk \in BOOLEAN :
        LET c   == call[p]
            cmd == runClone(vms, used, c.name, c.tags, cloneOk)
        IN  /\ vms' = cmd.vms
            /\ used' = cmd.given
            /\ IF cmd.err # "nil"
               THEN call' = [call EXCEPT ![p] = ErrorReturn(c, cmd.err)]
               ELSE LET machineID  == UUID(cmd.vm, readOk)
                        providerID == encodeProviderID(c.region, machineID)
                    IN  call' = [call EXCEPT ![p] = [c EXCEPT !.pc = "exit",
                                                              !.result = providerID]]
    /\ UNCHANGED << codec, validation, sessions >>

\* DeleteMachine after the client exists.
DeleteMachine(p) ==
    /\ call[p].pc = "body" /\ call[p].op = "Delete"
    /\ \E destroyOk \in BOOLEAN :
        LET c         == call[p]
            machineID == decodeProviderID(c.providerID).machineID
            d         == deleteVM(vms, c.name, machineID, destroyOk)
        IN  /\ vms' = d.vms
            /\ IF d.err # "nil"
               THEN call' = [call EXCEPT ![p] =
                                [ErrorReturn(c, d.err) EXCEPT !.path = d.path]]
               ELSE call' = [call EXCEPT ![p] = [c EXCEPT !.pc = "exit", !.path = d.path,
                                 !.result = foundProviderID(c.region, c.providerID, d.id)]]
    /\ UNCHANGED << codec, validation, used, sessions >>

\* ShutDownMachine after the client exists.
ShutDownMachine(p) ==
    /\ call[p].pc = "body" /\ call[p].op = "ShutDown"
    /\ \E powerOk \in BOOLEAN :
        LET c         == call[p]
            machineID == decodeProviderID(c.providerID).machineID
            d         == shutDownVM(vms, c.name, machineID, powerOk)
        IN  /\ vms' = d.vms
            /\ IF d.err # "nil"
               THEN call' = [call EXCEPT ![p] =
                                [ErrorReturn(c, d.err) EXCEPT !.path = d.path]]
               ELSE call' = [call EXCEPT ![p] = [c EXCEPT !.pc = "exit", !.path = d.path,
                                 !.result = foundProviderID(c.region, c.providerID, d.id)]]
    /\ UNCHANGED << codec, validation, used, sessions >>

\* GetMachineStatus after the client exists.
GetMachineStatus(p) ==
    /\ call[p].pc = "body" /\ call[p].op = "GetStatus"
    /\ \E readOk \in BOOLEAN :
        LET c         == call[p]
            machineID == decodeProviderID(c.providerID).machineID
            f         == findVM(vms, c.name, machineID)
        IN  IF f.err # "nil"
            THEN call' = [call EXCEPT ![p] =
                             [ErrorReturn(c, f.err) EXCEPT !.path = f.path]]
            ELSE LET foundMachineID == UUID(f.vm, readOk)
                 IN  call' = [call EXCEPT ![p] = [c EXCEPT !.pc = "exit", !.path = f.path,
                                  !.result = foundProviderID(c.region, c.providerID, foundMachineID)]]
    /\ UNCHANGED << codec, validation, vms, used, sessions >>

\* ListMachines after the client exists.
ListMachines(p) ==
    /\ call[p].pc = "body" /\ call[p].op = "List"
    /\ LET c == call[p]
       IN  \E clusterName \in LastKeyWithPrefix(c.tags, clusterPrefix) :
           \E nodeRole \in LastKeyWithPrefix(c.tags, rolePrefix) :
             IF TagsMissing(clusterName, nodeRole)
             THEN call' = [call EXCEPT ![p] = [c EXCEPT
                      !.pc = "exit", !.list = {}, !.listNil = FALSE,
                      !.clusterName = clusterName, !.nodeRole = nodeRole]]
             ELSE \E scanOk \in BOOLEAN :
                  \E order \in VisitOrders(vms) : \E readOk \in SUBSET vms :
                    IF scanOk
                    THEN call' = [call EXCEPT ![p] = [c EXCEPT
                             !.pc = "exit", !.scanned = TRUE, !.listNil = FALSE,
                             !.clusterName = clusterName, !.nodeRole = nodeRole,
                             !.seen = vms,
                             !.list = visitVirtualMachines({}, order, 1, readOk,
                                          clusterName, nodeRole, c.region)]]
                    ELSE call' = [call EXCEPT ![p] =
                             [ErrorReturn(c, "ScanError") EXCEPT !.scanned = TRUE,
                                 !.clusterName = clusterName, !.nodeRole = nodeRole]]
    /\ UNCHANGED << codec, validation, vms, used, sessions >>

\* The return of every operation whose client exists: the deferred Logout.
\* The caller is left with what the operation returned and with the name and
\* the region it passed.
Return(p) ==
    /\ call[p].pc = "exit"
    /\ sessions' = Logout(sessions, p)
    /\ call' = [call EXCEPT ![p] =
           [NoCall EXCEPT !.pc = "done", !.op = call[p].op,
                          !.name = call[p].name, !.region = call[p].region,
                          !.result = call[p].result,
                          !.err = call[p].err, !.list = call[p].list,
                          !.listNil = call[p].listNil,
                          !.opened = call[p].opened,
                          !.closed = call[p].closed + 1]]
    /\ UNCHANGED << codec, validation, vms, used >>

Step(p) ==
    \/ Begin(p)
    \/ CreateMachine(p)
    \/ DeleteMachine(p)
    \/ ShutDownMachine(p)
    \/ GetMachineStatus(p)
    \/ ListMachines(p)
    \/ Return(p)

Next == \E p \in Procs : Step(p)

Spec == Init /\ [][Next]_vars

\* -------------------------------------------------------------- validation

\* strings.Contains
Contains(s, substr) ==
    \E i \in 1..(Len(s) - Len(substr) + 1) :
        SubSeq(s, i, i + Len(substr) - 1) = substr

\* A field is empty or set.
FieldValues == {EmptyStr, <<"v">>}

\* Tag keys: with the cluster or role marker as prefix, with it after other
\* characters, with both markers, and with none.
XCa == <<"x">> \o clusterPrefix \o <<"a">>
XRb == <<"x">> \o rolePrefix \o <<"b">>
CRc == clusterPrefix \o rolePrefix \o <<"c">>
Plain == <<"name">>

TagKeys == {Cx, Rn, XCa, XRb, CRc, Plain}

MaxTags == 2

ValidationTagSets == {t \in SUBSET TagKeys : Cardinality(t) <= MaxTags}

ProviderSpecs ==
    [Datastore : FieldValues, DatastoreCluster : FieldValues, TemplateVM : FieldValues,
     ComputeCluster : FieldValues, ResourcePool : FieldValues, HostSystem : FieldValues,
     Network : FieldValues, Tags : ValidationTagSets]

SecretsInputs ==
    [VsphereHost : FieldValues, VsphereUsername : FieldValues,
     VspherePassword : FieldValues, UserData : FieldValues]

\* One error if the condition holds, none otherwise.
ErrorIf(cond, msg) == IF cond THEN <<msg>> ELSE <<>>

\* validateSecrets stopping at the first missing secret (a plausible slip:
\* return instead of append).
validateSecrets_FirstOnly(reference) ==
    IF reference.VsphereHost = EmptyStr
    THEN <<"Secret vsphereHost is required field">>
    ELSE IF reference.VsphereUsername = EmptyStr
    THEN <<"Secret vsphereUsername is required field">>
    ELSE IF reference.VspherePassword = EmptyStr
    THEN <<"Secret vspherePassword is required field">>
    ELSE ErrorIf(reference.UserData = EmptyStr, "Secret userData is required field")

validateSecrets(reference) ==
    ErrorIf(reference.VsphereHost = EmptyStr, "Secret vsphereHost is required field")
    \o ErrorIf(reference.VsphereUsername = EmptyStr, "Secret vsphereUsername is required field")
    \o ErrorIf(reference.VspherePassword = EmptyStr, "Secret vspherePassword is required field")
    \o ErrorIf(reference.UserData = EmptyStr, "Secret userData is required field")

\* validateSpecTags: clusterName is left at a key that contains the cluster
\* marker, nodeRole at a key that does not contain it and contains the role
\* marker (if / else if), each "" if the loop met no such key; which of
\* several such keys is left does not matter to the errors.
validateSpecTags(tags) ==
    LET clusterKeys == {key \in tags : Contains(key, clusterPrefix)}
        roleKeys    == {key \in tags : ~Contains(key, clusterPrefix)
                                       /\ Contains(key, rolePrefix)}
        clusterName == IF clusterKeys = {} THEN EmptyStr
                       ELSE CHOOSE key \in clusterKeys : TRUE
        nodeRole    == IF roleKeys = {} THEN EmptyStr
                       ELSE CHOOSE key \in roleKeys : TRUE
    IN  ErrorIf(clusterName = EmptyStr,
                "tag required of the form kubernetes.io/cluster/****")
        \o ErrorIf(nodeRole = EmptyStr,
                   "tag required of the form kubernetes.io/role/****")

ValidateVsphereProviderSpec(spec, secrets) ==
    ErrorIf(spec.Datastore = EmptyStr /\ spec.DatastoreCluster = EmptyStr,
            "either datastoreCluster or datastore field is required")
    \o ErrorIf(spec.TemplateVM = EmptyStr, "templateVM is a required field")
    \o ErrorIf(/\ spec.ComputeCluster = EmptyStr /\ spec.ResourcePool = EmptyStr
               /\ spec.HostSystem = EmptyStr,
               "either computeCluster or resourcePool or hostSystem field is required")
    \o ErrorIf(spec.Network = EmptyStr, "network is a required field")
    \o validateSecrets(secrets)
    \o validateSpecTags(spec.Tags)

ValidationInit ==
    /\ MainIdle
    /\ codec = CodecIdle
    /\ \E spec \in ProviderSpecs, secrets \in SecretsInputs :
        validation = [ValidationIdle EXCEPT !.step = "start", !.spec = spec,
                                           !.secrets = secrets]

\* ValidateVsphereProviderSpec(spec, secrets)
Validate ==
    /\ validation.step = "start"
    /\ validation' = [validation EXCEPT
           !.step = "validated",
           !.allErrs = ValidateVsphereProviderSpec(validation.spec, validation.secrets),
           !.tagErrs = validateSpecTags(validation.spec.Tags)]
    /\ UNCHANGED << codec, vms, used, sessions, call >>

\* ListMachines called with the validated spec, up to its check of
\* clusterName and nodeRole.
ListKeys ==
    /\ validation.step = "validated"
    /\ \E clusterName \in LastKeyWithPrefix(validation.spec.Tags, clusterPrefix) :
       \E nodeRole \in LastKeyWithPrefix(validation.spec.Tags, rolePrefix) :
         validation' = [validation EXCEPT
             !.step = "listed",
             !.clusterName = clusterName, !.nodeRole = nodeRole,
             !.early = TagsMissing(clusterName, nodeRole)]
    /\ UNCHANGED << codec, vms, used, sessions, call >>

ValidationNext == Validate \/ ListKeys

ValidationSpec == ValidationInit /\ [][ValidationNext]_vars

\* ------------------------------------------------ concurrent invocations

\* Under ConcSpec two callers run operations at the same time, each on the
\* machine name of its own and with the identifiers its own calls returned.
NameOf(p) == IF p = "p1" THEN "n1" ELSE "n2"

ConcTagSets == { {Cx, Cy, Rn} }

ConcArgs(p, op, prev) ==
    [name       : IF op = "List" THEN {""} ELSE {NameOf(p)},
     providerID : IF op \in {"Create", "List"} THEN {EmptyStr}
                  ELSE {EmptyStr, prev.result},
     region     : {<<"e">>},
     tags       : IF op = "Create" THEN {{Cx, Rn}}
                  ELSE IF op = "List" THEN ConcTagSets ELSE {{}}]

\* Entry of every operation, as Begin, with the arguments of ConcArgs.
ConcBegin(p) ==
    /\ call[p].pc \in {"idle", "done"}
    /\ \E op \in Ops :
        \/ \E a \in ConcArgs(p, op, call[p]) :
            /\ sessions' = createVsphereClient(sessions, p)
            /\ call' = [call EXCEPT ![p] =
                   [NoCall EXCEPT !.pc = "body", !.opened = 1, !.op = op,
                                  !.name = a.name, !.providerID = a.providerID,
                                  !.region = a.region, !.tags = a.tags,
                                  !.afterCreate = FollowsCreate(call[p], op, a)]]
        \/ /\ sessions' = sessions
           /\ call' = [call EXCEPT ![p] =
                  [ErrorReturn([NoCall EXCEPT !.op = op], "ConnectError")
                       EXCEPT !.pc = "done"]]
    /\ UNCHANGED << codec, validation, vms, used >>

ConcStep(p) ==
    \/ ConcBegin(p)
    \/ CreateMachine(p)
    \/ DeleteMachine(p)
    \/ ShutDownMachine(p)
    \/ GetMachineStatus(p)
    \/ ListMachines(p)
    \/ Return(p)

ConcNext == \E p \in AllProcs : ConcStep(p)

ConcSpec == Init /\ [][ConcNext]_vars

\* ------------------------------------------------------ the codec on its own

CodecInit ==
    /\ MainIdle
    /\ validation = ValidationIdle
    /\ \E r \in Strs, m \in Strs, p \in DecodeInputs :
        codec = [CodecIdle EXCEPT !.step = "start", !.region = r,
                                  !.machineID = m, !.providerID = p]

\* encode(region, machineID)
CodecEncode ==
    /\ codec.step = "start"
    /\ codec' = [codec EXCEPT !.step = "encoded",
                              !.encoded = encodeProviderID(codec.region, codec.machineID)]
    /\ UNCHANGED << validation, vms, used, sessions, call >>

\* decode(providerID)
CodecDecode ==
    /\ codec.step = "start"
    /\ codec' = [codec EXCEPT !.step = "decoded",
                              !.decoded = decodeProviderID(codec.providerID)]
    /\ UNCHANGED << validation, vms, used, sessions, call >>

\* decode(encode(region, machineID))
CodecRoundTrip ==
    /\ codec.step = "encoded"
    /\ codec' = [codec EXCEPT !.step = "roundtrip",
                              !.decoded = decodeProviderID(codec.encoded)]
    /\ UNCHANGED << validation, vms, used, sessions, call >>

CodecNext == CodecEncode \/ CodecDecode \/ CodecRoundTrip

CodecSpec == CodecInit /\ [][CodecNext]_vars

\* ---------------------------------------------------------- codec claims

\* An identifier as the codec's contract describes a well-formed one: the
\* scheme prefix, then exactly two non-empty segments separated by one "/".
WellFormedID(providerID) ==
    /\ HasPrefix(providerID, providerPrefix)
    /\ LET n    == Len(providerPrefix)
           rest == SubSeq(providerID, n + 1, Len(providerID))
       IN  /\ Cardinality({i \in 1..Len(rest) : rest[i] = "/"}) = 1
           /\ rest[1] # "/"
           /\ rest[Len(rest)] # "/"

\* C1: for every non-empty region and every non-empty native id,
\* decode(encode(region, nativeId)) is exactly (region, nativeId).
C1_RoundTrip ==
    (codec.step = "roundtrip" /\ codec.region # EmptyStr /\ codec.machineID # EmptyStr)
        => codec.decoded = [region |-> codec.region, machineID |-> codec.machineID]

\* C2: decode returns ("", "") whenever the identifier lacks the scheme prefix
\* or its remainder is not exactly two non-empty "/"-separated segments.
C2_MalformedDecodesEmpty ==
    (codec.step = "decoded" /\ ~WellFormedID(codec.providerID))
        => codec.decoded = NoID

\* C3: encode(region, nativeId) is the empty string when nativeId is empty,
\* for every region, and otherwise is exactly the scheme prefix, the region,
\* "/", and the native id, in that order.
C3_EncodeContract ==
    codec.step = "encoded" =>
        LET e == codec.encoded
            n == Len(providerPrefix)
            r == Len(codec.region)
        IN  IF codec.machineID = EmptyStr
            THEN e = EmptyStr
            ELSE /\ Len(e) = n + r + 1 + Len(codec.machineID)
                 /\ SubSeq(e, 1, n) = providerPrefix
                 /\ SubSeq(e, n + 1, n + r) = codec.region
                 /\ e[n + r + 1] = "/"
                 /\ SubSeq(e, n + r + 2, Len(e)) = codec.machineID

\* C3's case: a non-empty region encoded with an empty native id.
C3_Witness ==
    /\ codec.step = "encoded"
    /\ codec.region # EmptyStr
    /\ codec.machineID = EmptyStr
    /\ codec.encoded = EmptyStr

\* ------------------------------------------------------ lifecycle claims

\* No machine of the scope bears the call's name or the native id that the
\* call's identifier was minted from.
TargetAbsent(c) ==
    \A v \in vms :
        /\ v.name # c.name
        /\ \A r \in Regions : c.providerID # providerPrefix \o r \o <<"/">> \o v.uuid

\* The step in which invocation p runs the body of operation op.
BodyStep(p, op) ==
    /\ call[p].pc = "body"
    /\ call[p].op = op
    /\ call'[p].pc = "exit"

\* C4: whenever DeleteMachine runs for a name and identifier whose machine is
\* gone (deleted before, or never there), it returns no error and the empty
\* identifier and leaves the platform's machines as they were, however often
\* it is called.
C4_DeleteIdempotent ==
    [][\A p \in AllProcs :
          (BodyStep(p, "Delete") /\ TargetAbsent(call[p]))
              => /\ call'[p].err = "nil"
                 /\ call'[p].result = EmptyStr
                 /\ vms' = vms]_vars

\* C4's case: a machine was created and is gone, and a Delete naming its
\* identifier has returned.
C4_Witness ==
    \E p \in AllProcs :
        /\ call[p].pc = "exit" /\ call[p].op = "Delete"
        /\ used > 0 /\ vms = {}
        /\ call[p].providerID = encodeProviderID(<<"e">>, UuidOf(used))
        /\ call[p].err = "nil" /\ call[p].result = EmptyStr

\* C5: a session opened by an operation is held while the operation runs and
\* is released exactly once by the time it has returned, whatever the exit
\* path; an operation whose session never opened releases none; when no
\* operation is running no session is open.
C5_SessionScoped ==
    /\ \A p \in AllProcs :
        /\ call[p].pc \in {"body", "exit"}
              => (p \in sessions /\ call[p].opened = 1 /\ call[p].closed = 0)
        /\ call[p].pc \in {"idle", "done"}
              => (p \notin sessions /\ call[p].closed = call[p].opened)
    /\ (\A p \in AllProcs : call[p].pc \in {"idle", "done"}) => sessions = {}

\* C5's case: an operation that failed after its session was opened has
\* returned.
C5_Witness ==
    \E p \in AllProcs :
        /\ call[p].pc = "done"
        /\ call[p].err \in {"CloneError", "ScanError", "Ambiguous", "DestroyError"}
        /\ call[p].opened = 1 /\ call[p].closed = 1
        /\ sessions = {}

\* The machine is in the returned map, under the identifier of its native id.
Listed(c, v) ==
    [id |-> providerPrefix \o c.region \o <<"/">> \o v.uuid, name |-> v.name] \in c.list

\* ListMachines has returned a map to invocation p (no error).
ListReturned(p) ==
    /\ call[p].pc = "exit" /\ call[p].op = "List" /\ call[p].err = "nil"

\* C6 as claimed: a machine of the scope is in the returned map if and only
\* if its custom fields include some key with the cluster prefix and some key
\* with the role prefix (taken where the scan ran and every uuid was read).
C6_ListedIffAnyClusterAndRoleKey ==
    \A p \in AllProcs :
        (/\ ListReturned(p) /\ call[p].scanned
         /\ \A e \in call[p].list : e.id # EmptyStr) =>
            \A v \in vms :
                Listed(call[p], v) <=>
                    /\ \E k \in v.fields : HasPrefix(k, clusterPrefix)
                    /\ \E k \in v.fields : HasPrefix(k, rolePrefix)

\* C6 as amended: when ListMachines has scanned the scope and returned a map,
\* a machine is in the map only if its custom fields include the cluster key
\* and the role key that ListMachines took from the spec's tags, and every
\* machine whose fields include both is in the map under the identifier of
\* its native id, or, when the read of a uuid failed, the map has an entry
\* under the empty identifier.
C6_ListedIffSpecKeys ==
    \A p \in AllProcs :
        (ListReturned(p) /\ call[p].scanned) =>
            \A v \in vms :
                LET carries == /\ call[p].clusterName \in v.fields
                               /\ call[p].nodeRole \in v.fields
                IN  /\ Listed(call[p], v) => carries
                    /\ carries => \/ Listed(call[p], v)
                                  \/ \E e \in call[p].list : e.id = EmptyStr
                    /\ (\E e \in call[p].list : e.id = EmptyStr) =>
                           \E w \in vms : /\ call[p].clusterName \in w.fields
                                          /\ call[p].nodeRole \in w.fields

\* C6's case: a scan that returned one machine and left out another that
\* carries the cluster key but no role key.
C6_Witness ==
    \E p \in AllProcs :
        /\ ListReturned(p) /\ call[p].scanned
        /\ \E v, w \in vms :
            /\ Listed(call[p], v)
            /\ ~Listed(call[p], w)
            /\ w.fields = {Cx}

\* C7: DeleteMachine called with the empty identifier and the name of an
\* existing machine resolves by name; when it returns no error it has removed
\* exactly the machine of that name and returns encode(spec.Region, its native
\* id); when that machine is the only one of its name the only error is the
\* platform's refusal to destroy it, and then nothing is removed.
C7_DeleteByName ==
    [][\A p \in AllProcs :
          (/\ BodyStep(p, "Delete")
           /\ call[p].providerID = EmptyStr
           /\ \E v \in vms : v.name = call[p].name)
              => /\ call'[p].path = "name"
                 /\ call'[p].err = "nil" =>
                       \E v \in vms :
                           /\ v.name = call[p].name
                           /\ vms' = vms \ {v}
                           /\ call'[p].result =
                                 providerPrefix \o call[p].region \o <<"/">> \o v.uuid
                 /\ call'[p].err # "nil" => (vms' = vms /\ call'[p].result = EmptyStr)
                 /\ Cardinality({v \in vms : v.name = call[p].name}) = 1
                       => call'[p].err \in {"nil", "DestroyError"}]_vars

\* C7's case: a Delete with the empty identifier has removed the first machine
\* and returned its identifier.
C7_Witness ==
    \E p \in AllProcs :
        /\ call[p].pc = "exit" /\ call[p].op = "Delete"
        /\ call[p].providerID = EmptyStr
        /\ call[p].path = "name" /\ call[p].err = "nil"
        /\ call[p].result = providerPrefix \o call[p].region \o <<"/">> \o UuidOf(1)
        /\ \A v \in vms : v.uuid # UuidOf(1)

\* C8: a GetMachineStatus that follows a successful CreateMachine with the
\* identifier it returned resolves the machine by the native id decoded from
\* that identifier and returns that identifier.
C8_StatusAfterCreate ==
    \A p \in AllProcs :
        (call[p].pc = "exit" /\ call[p].op = "GetStatus" /\ call[p].afterCreate)
            => /\ call[p].path = "id"
               /\ call[p].err = "nil"
               /\ call[p].result = call[p].providerID

\* C9: CreateMachine never returns no error together with the empty
\* identifier.
C9_CreateNeverEmptySuccess ==
    \A p \in AllProcs :
        (call[p].pc \in {"exit", "done"} /\ call[p].op = "Create" /\ call[p].err = "nil")
            => call[p].result # EmptyStr

\* C10: when the spec's tags have no key with the cluster prefix, or none with
\* the role prefix, ListMachines returns an empty (non-nil) map and no error,
\* and has not scanned the platform's machines.
C10_MissingTagsNoScan ==
    \A p \in AllProcs :
        (/\ call[p].pc = "exit" /\ call[p].op = "List"
         /\ \/ ~\E k \in call[p].tags : HasPrefix(k, clusterPrefix)
            \/ ~\E k \in call[p].tags : HasPrefix(k, rolePrefix))
            => /\ call[p].list = {}
               /\ ~call[p].listNil
               /\ call[p].err = "nil"
               /\ ~call[p].scanned

\* C10's case: a spec with a cluster key and no role key, over a scope that
\* holds a machine.
C10_Witness ==
    \E p \in AllProcs :
        /\ call[p].pc = "exit" /\ call[p].op = "List"
        /\ call[p].tags = {Cx}
        /\ vms # {}
        /\ call[p].list = {} /\ ~call[p].scanned

\* ------------------------------------------------ lookup and error claims

\* The machines GetMachineStatus, DeleteMachine and ShutDownMachine resolve
\* with the arguments of call c: the one with the native id decoded from the
\* identifier, else the only one of the name.
Resolved(c) ==
    LET machineID == decodeProviderID(c.providerID).machineID
        byID      == {v \in vms : machineID # EmptyStr /\ v.uuid = machineID}
        byName    == {v \in vms : v.name = c.name}
    IN  IF byID # {} THEN byID
        ELSE IF Cardinality(byName) = 1 THEN byName ELSE {}

\* No machine has the native id of call c's identifier, and none its name.
Absent(c) ==
    LET machineID == decodeProviderID(c.providerID).machineID
    IN  \A v \in vms : v.name # c.name /\ (machineID = EmptyStr \/ v.uuid # machineID)

\* C11: GetMachineStatus returns no error and the machine's identifier when
\* the machine is found, returns the not-found signal (an error that is
\* neither success nor another failure) and no identifier when it is absent,
\* never returns success with the empty identifier, and leaves the platform's
\* machines as they were.
C11_StatusFoundOrNotFound ==
    [][\A p \in AllProcs :
          BodyStep(p, "GetStatus")
              => /\ vms' = vms /\ used' = used
                 /\ Resolved(call[p]) # {}
                      => /\ call'[p].err = "nil"
                         /\ \E v \in Resolved(call[p]) :
                              call'[p].result =
                                 providerPrefix \o call[p].region \o <<"/">> \o v.uuid
                 /\ Absent(call[p])
                      => /\ call'[p].err = "NotFound"
                         /\ call'[p].result = EmptyStr
                 /\ call'[p].err = "nil" => call'[p].result # EmptyStr]_vars

\* The errors the platform actions of an operation report.
ErrorsOf(op) ==
    CASE op = "Create"    -> {"CloneError"}
      [] op = "Delete"    -> {"Ambiguous", "DestroyError"}
      [] op = "ShutDown"  -> {"Ambiguous", "PowerOpError"}
      [] op = "GetStatus" -> {"NotFound", "Ambiguous"}
      [] op = "List"      -> {"ScanError"}
      [] OTHER            -> {}

\* C12: when opening the session fails the operation returns that error, the
\* empty identifier (the nil map) and has opened nothing; when its platform
\* action fails it returns that action's error as reported, the empty
\* identifier (the nil map), and the platform's machines are as they were;
\* after a failure the operation only returns: it changes no machine and
\* keeps the error.
C12_ErrorPropagation ==
    [][\A p \in AllProcs :
          LET c == call[p]
              d == call'[p]
          IN  /\ (c.pc \in {"idle", "done"} /\ d # c /\ d.pc = "done")
                    => /\ d.err = "ConnectError"
                       /\ d.result = EmptyStr /\ d.list = {} /\ d.listNil
                       /\ d.opened = 0
                       /\ sessions' = sessions /\ vms' = vms /\ used' = used
              /\ (c.pc = "body" /\ d.pc = "exit" /\ d.err # "nil")
                    => /\ d.err \in ErrorsOf(c.op)
                       /\ d.result = EmptyStr /\ d.list = {} /\ d.listNil
                       /\ vms' = vms /\ used' = used
              /\ (/\ c.pc = "body" /\ d.pc = "exit"
                  /\ c.op \in {"Delete", "ShutDown", "GetStatus"}
                  /\ Resolved(c) = {} /\ ~Absent(c))
                    => d.err = "Ambiguous"
              /\ (c.pc = "exit" /\ c.err # "nil" /\ d # c)
                    => /\ d.pc = "done" /\ d.err = c.err
                       /\ d.result = EmptyStr /\ d.list = {} /\ d.listNil
                       /\ vms' = vms /\ used' = used]_vars

\* C12's case: a destroy the platform refused: DeleteMachine is about to
\* return the error, and the machine is still there.
C12_Witness ==
    \E p \in AllProcs :
        /\ call[p].pc = "exit" /\ call[p].op = "Delete"
        /\ call[p].err = "DestroyError"
        /\ \E v \in vms : v.name = call[p].name

\* C13: when the identifier passed to DeleteMachine, ShutDownMachine or
\* GetMachineStatus decodes to a native id that a machine of the scope has,
\* the operation resolves by the identifier, acts on that machine and, on
\* success, returns that machine's identifier, whichever machine bears the
\* name passed; the name decides only when the identifier gives no native id
\* or no machine has it.
C13_IdentifierFirst ==
    [][\A p \in AllProcs : \A op \in {"Delete", "ShutDown", "GetStatus"} :
          BodyStep(p, op)
              => LET c         == call[p]
                     d         == call'[p]
                     machineID == decodeProviderID(c.providerID).machineID
                     byID      == {v \in vms : v.uuid = machineID}
                 IN  /\ (machineID # EmptyStr /\ byID # {})
                           => \E v \in byID :
                                /\ d.path = "id"
                                /\ d.err = "nil"
                                     => d.result = providerPrefix \o c.region \o <<"/">> \o v.uuid
                                /\ vms' = IF d.err # "nil" \/ op = "GetStatus" THEN vms
                                          ELSE IF op = "Delete" THEN vms \ {v}
                                          ELSE (vms \ {v}) \cup {[v EXCEPT !.power = "off"]}
                     /\ d.path = "name" => (machineID = EmptyStr \/ byID = {})]_vars

\* providerID is what encodeProviderID makes of the call's region and the
\* native id of a machine the platform has had.
MintedFor(c, providerID) ==
    \E i \in 1..used : providerID = providerPrefix \o c.region \o <<"/">> \o UuidOf(i)

\* C14: every identifier an operation returns, and every key of the map
\* ListMachines returns, is the encoding of the call's region and the native
\* id of a machine of the platform; no key of the map is the empty identifier.
C14_ReturnedIdsMinted ==
    \A p \in AllProcs :
        call[p].pc \in {"exit", "done"}
            => /\ call[p].result # EmptyStr => MintedFor(call[p], call[p].result)
               /\ \A e \in call[p].list :
                    e.id # EmptyStr /\ MintedFor(call[p], e.id)

\* C15: DeleteMachine, ShutDownMachine and GetMachineStatus read no region
\* from the identifier passed: a machine with the identifier's native id is
\* resolved by it whether or not the identifier's region is the spec's, and
\* every identifier returned carries the spec's region, so that it differs
\* from the identifier passed when that one names another region.
C15_InputRegionDiscarded ==
    [][\A p \in AllProcs : \A op \in {"Delete", "ShutDown", "GetStatus"} :
          BodyStep(p, op)
              => LET c      == call[p]
                     d      == call'[p]
                     given  == decodeProviderID(c.providerID)
                     minted == decodeProviderID(d.result)
                 IN  /\ (given.machineID # EmptyStr /\ \E v \in vms : v.uuid = given.machineID)
                           => /\ d.path = "id"
                              /\ d.err \in {"nil", "DestroyError", "PowerOpError"}
                     /\ d.result # EmptyStr
                           => /\ minted.region = c.region
                              /\ d.path = "id" => minted.machineID = given.machineID
                              /\ given.region # c.region => d.result # c.providerID]_vars

\* C15's case: an identifier of region e passed with a spec of region w; the
\* machine is resolved by it and the identifier returned is of region w.
C15_Witness ==
    \E p \in AllProcs : \E u \in UUIDs :
        /\ call[p].pc = "exit" /\ call[p].op \in {"Delete", "ShutDown", "GetStatus"}
        /\ call[p].region = <<"w">>
        /\ call[p].providerID = encodeProviderID(<<"e">>, u)
        /\ call[p].path = "id" /\ call[p].err = "nil"
        /\ call[p].result = encodeProviderID(<<"w">>, u)

\* ------------------------------------------------------ concurrency claims

\* The identifier of machine v under the region of call c.
IdOf(c, v) == providerPrefix \o c.region \o <<"/">> \o v.uuid

\* C16: with two callers running operations at the same time on machine
\* names of their own, a step of one invocation changes neither the other's
\* record (arguments, result, map) nor the other's session; an invocation
\* holds a session exactly from its entry to its return and its return closes
\* the session it opened; and every operation's effect and result are those
\* of the operation run alone on the platform's machines as they are at the
\* step of its platform action.
C16_NoSharedState ==
    [][\A p \in AllProcs :
          call'[p] # call[p]
              => LET c == call[p]
                     d == call'[p]
                     R == Resolved(c)
                 IN  /\ \A q \in AllProcs \ {p} :
                            /\ call'[q] = call[q]
                            /\ q \in sessions' <=> q \in sessions
                     /\ p \in sessions' <=> d.pc \in {"body", "exit"}
                     /\ (c.pc = "exit" /\ d.pc = "done")
                            => d.opened = 1 /\ d.closed = 1
                     /\ (BodyStep(p, "Create") /\ d.err = "nil")
                            => \E v \in vms' \ vms :
                                 /\ vms' = vms \cup {v}
                                 /\ v.name = c.name /\ v.fields = c.tags
                                 /\ d.result \in {EmptyStr, IdOf(c, v)}
                     /\ (BodyStep(p, "Delete") /\ d.err = "nil")
                            => /\ vms' = vms \ R
                               /\ d.result \in IF R = {} THEN {EmptyStr}
                                               ELSE {IdOf(c, v) : v \in R}
                     /\ (BodyStep(p, "ShutDown") /\ d.err = "nil")
                            => /\ vms' = (vms \ R) \cup {[v EXCEPT !.power = "off"] : v \in R}
                               /\ d.result \in IF R = {} THEN {EmptyStr}
                                               ELSE {IdOf(c, v) : v \in R}
                     /\ BodyStep(p, "GetStatus")
                            => /\ vms' = vms
                               /\ d.err = "nil"
                                    => d.result \in {EmptyStr} \cup {IdOf(c, v) : v \in R}
                     /\ BodyStep(p, "List")
                            => /\ vms' = vms
                               /\ \A e \in d.list : \E v \in vms :
                                    /\ e.name = v.name
                                    /\ {d.clusterName, d.nodeRole} \subseteq v.fields
                                    /\ e.id \in {EmptyStr, IdOf(c, v)}]_vars

\* C16's case: both callers are inside an operation at once, one having
\* deleted its machine, the other having listed one.
C16_Witness ==
    /\ sessions = AllProcs
    /\ \E p, q \in AllProcs :
        /\ p # q
        /\ call[p].pc = "exit" /\ call[p].op = "Delete" /\ call[p].result # EmptyStr
        /\ call[q].pc = "exit" /\ call[q].op = "List" /\ call[q].list # {}

\* Invocation p has returned from a ListMachines that scanned the machines
\* and read the native id of every machine it put into the map.
ListedAll(p) ==
    /\ call[p].pc = "exit" /\ call[p].op = "List"
    /\ call[p].scanned /\ call[p].err = "nil"
    /\ \A e \in call[p].list : e.id # EmptyStr

\* C19: two runs of ListMachines with the same spec over the same machines
\* return the same map, however many keys with the cluster prefix or the
\* role prefix the spec's tags have.
C19_ListDeterministic ==
    \A p, q \in AllProcs :
        (/\ ListedAll(p) /\ ListedAll(q)
         /\ call[p].tags = call[q].tags /\ call[p].region = call[q].region
         /\ call[p].seen = call[q].seen)
            => call[p].list = call[q].list

\* ------------------------------------------------------- validation claims

\* The kind of a tag key for the validation: a cluster key has the cluster
\* marker in it; a role key is no cluster key and has the role marker in it.
IsClusterKey(key) == Contains(key, clusterPrefix)
IsRoleKey(key) == ~IsClusterKey(key) /\ Contains(key, rolePrefix)

\* The requirements on a provider spec and its secrets, each with whether it
\* is met.
Requirements(spec, secrets) ==
    { [req |-> "datastore",  met |-> spec.Datastore # EmptyStr \/ spec.DatastoreCluster # EmptyStr],
      [req |-> "templateVM", met |-> spec.TemplateVM # EmptyStr],
      [req |-> "placement",  met |-> \/ spec.ComputeCluster # EmptyStr
                                     \/ spec.ResourcePool # EmptyStr
                                     \/ spec.HostSystem # EmptyStr],
      [req |-> "network",    met |-> spec.Network # EmptyStr],
      [req |-> "host",       met |-> secrets.VsphereHost # EmptyStr],
      [req |-> "username",   met |-> secrets.VsphereUsername # EmptyStr],
      [req |-> "password",   met |-> secrets.VspherePassword # EmptyStr],
      [req |-> "userData",   met |-> secrets.UserData # EmptyStr],
      [req |-> "clusterKey", met |-> \E key \in spec.Tags : IsClusterKey(key)],
      [req |-> "roleKey",    met |-> \E key \in spec.Tags : IsRoleKey(key)] }

C18_ValidatedTagsListable ==
    (validation.step = "listed" /\ validation.tagErrs = <<>>)
        => /\ ~validation.early
           /\ validation.clusterName # EmptyStr
           /\ validation.nodeRole # EmptyStr

====
